---- MODULE Spec2Model ----
(***************************************************************************)
(* Client lifecycle and transaction state machine of fastify-postgres.     *)
(*                                                                         *)
(* The repository holds three generations of the Database handler:         *)
(*   "database.js" : src/database.js        (patched-once guard, no        *)
(*                                           transactions, 15 s timer)     *)
(*   "part_001"    : src/unnamed/part_001   (beginTransaction /            *)
(*                                           commitTransaction, release    *)
(*                                           does not await the rollback)  *)
(*   "part_000"    : src/unnamed/part_000   lines 191-454 (async release,  *)
(*                                           asyncBeginTransaction ...)    *)
(* The variable `variant` fixes which generation is installed.             *)
(*                                                                         *)
(* JavaScript runs one task at a time: an action of this module is one     *)
(* macrotask (a handler step, a timer callback, the completion of a        *)
(* driver call) together with the promise continuations it makes ready.    *)
(* A task is suspended only while it awaits a driver call, i.e. while its  *)
(* entry sits in queue[c].                                                 *)
(*                                                                         *)
(* The pool (pg-pool) and the request framework (fastify) are outside the  *)
(* repository; they are modelled by what the sources rely on: connect()    *)
(* hands out an idle connection and re-installs its own release on it      *)
(* (part_001:133), the native release of a checkout returns the            *)
(* connection on its first invocation, a timer fires once unless cleared.  *)
(***************************************************************************)
EXTENDS Integers, Sequences, FiniteSets, TLC

\* ---------------------------------------------------------------- bounds
NumClients  == 2   \* physical connections the pool can create
NumRequests == 2   \* inbound requests
MaxCalls    == 3   \* calls the requests make: requireDbClient() and client methods
MaxFailures == 1   \* driver or pool calls that reject

Clients  == 1..NumClients
Requests == 1..NumRequests
Variants == {"database.js", "part_001", "part_000"}

VARIABLES
    options,          \* the options the plugin is registered with
    boot,             \* how far postgresDbConnector has come
    variant,          \* which generation of the Database class is loaded
    addCleanupWork,   \* fastify.addCleanupWork is installed
    clientIdCounter,  \* Database.clientIdCounter
    cl,               \* cl[c]: the fields the wrapper keeps on client c
    idle,             \* idle[c]: c sits in the pool
    epoch,            \* epoch[c]: number of checkouts of c so far
    pending,          \* pending[c]: armed setTimeout handles (not yet fired/cleared)
    queue,            \* queue[c]: driver calls in flight on c, oldest first
    req,              \* req[r]: the request, its client list, its position
    obs,              \* obs[c]: what the driver, the pool, the logger and the
                      \* report sink saw on c during its current checkout
    poolQuery,        \* the call of Database.query() under way or last made,
                      \* as the pool got it
    budget            \* what is left of MaxCalls / MaxFailures

vars == <<options, boot, variant, addCleanupWork, clientIdCounter, cl, idle,
          epoch, pending, queue, req, obs, poolQuery, budget>>

\* The whole state as one record, so that nested calls compose as functions.
World == [options |-> options, boot |-> boot, variant |-> variant, addCleanupWork |-> addCleanupWork,
          clientIdCounter |-> clientIdCounter,
          cl |-> cl, idle |-> idle, epoch |-> epoch, pending |-> pending,
          queue |-> queue, req |-> req, obs |-> obs, poolQuery |-> poolQuery,
          budget |-> budget]

Becomes(w) ==
    /\ options' = w.options
    /\ boot' = w.boot
    /\ variant' = w.variant
    /\ addCleanupWork' = w.addCleanupWork
    /\ clientIdCounter' = w.clientIdCounter
    /\ cl' = w.cl
    /\ idle' = w.idle
    /\ epoch' = w.epoch
    /\ pending' = w.pending
    /\ queue' = w.queue
    /\ req' = w.req
    /\ obs' = w.obs
    /\ poolQuery' = w.poolQuery
    /\ budget' = w.budget

\* ------------------------------------------------------------ query texts
WS == {" ", "NL", "TAB"}
BEGIN    == <<"begin">>
COMMIT   == <<"commit">>
ROLLBACK == <<"rollback">>
\* the text a handler sends: the README's multi-line template
SELECT   == <<"NL", " ", "select", " ", " ", "1", "NL">>
NoQuery  == <<>>

\* text.replace(/[ \n\r\t]+/gi, " "): every run of whitespace becomes one space
RECURSIVE collapse(_)
collapse(t) ==
    IF t = <<>> THEN <<>>
    ELSE IF Head(t) \in WS
         THEN LET rest == collapse(Tail(t))
              IN  IF rest # <<>> /\ Head(rest) = " " THEN rest ELSE <<" ">> \o rest
         ELSE <<Head(t)>> \o collapse(Tail(t))

\* .replace(/^\s+|\s+$/g, ""): leading and trailing whitespace removed
RECURSIVE trimLeft(_)
trimLeft(t) == IF t # <<>> /\ Head(t) \in WS THEN trimLeft(Tail(t)) ELSE t
RECURSIVE trimRight(_)
trimRight(t) ==
    IF t # <<>> /\ t[Len(t)] \in WS THEN trimRight(SubSeq(t, 1, Len(t) - 1)) ELSE t

trimmedText(text) == trimRight(trimLeft(collapse(text)))

\* ----------------------------------------------------------- observations
\* obs[c] counts, for the current checkout of c, the statements handed to the
\* driver, the invocations of the pool's release, the wrapper calls and the
\* log lines, and keeps the last leak report.  connect() starts it afresh.
NoReport == [lastQuery |-> NoQuery, stillRunning |-> "none"]

NoObs == [sent     |-> [begin |-> 0, commit |-> 0, rollback |-> 0],
          open     |-> FALSE,  \* the last of them handed over was a BEGIN
          natives  |-> 0,      \* invocations of this checkout's native release
          stale    |-> 0,      \* invocations of an earlier checkout's native release
          relCalls |-> 0,      \* calls of client.release()
          relLast  |-> FALSE,  \* release() was called on c and no handler has
                               \* touched c since
          fired    |-> 0,      \* expiries of the leak timer
          errors   |-> 0,      \* logger.error lines
          lastError |-> "",
          report   |-> NoReport,
          hist     |-> <<>>,   \* the handler's transaction calls, with outcome
          threw    |-> -1,     \* ROLLBACKs sent before the handler threw inside
                               \* a transaction (-1: it did not)
          holder   |-> 0,      \* the request the checkout was made for
          shared   |-> FALSE]  \* the checkout started while another request still
                               \* held c, or with a call or a transaction left
                               \* over from the checkout before

Kind(text) ==
    CASE text = BEGIN    -> "begin"
      [] text = COMMIT   -> "commit"
      [] text = ROLLBACK -> "rollback"
      [] OTHER           -> "other"

Sent(w, c, text) ==
    LET k == Kind(text)
    IN  IF k = "other" THEN w
        ELSE [w EXCEPT !.obs[c].sent[k] = @ + 1, !.obs[c].open = (k = "begin")]

\* a handler calls query() or a transaction method on c, or gets its outcome
Used(w, c) == [w EXCEPT !.obs[c].relLast = FALSE]

\* the handler of request r calls a transaction method on c ...
Called(w, c, r, method) ==
    [Used(w, c) EXCEPT !.obs[c].hist = Append(@, <<method, "called", r>>)]

\* ... and gets its outcome: "ok", "throw" or "false"
Returned(w, c, r, method, value) ==
    [w EXCEPT !.obs[c].hist =
        [i \in DOMAIN @ |-> IF @[i] = <<method, "called", r>>
                            THEN <<method, value, r>> ELSE @[i]]]

Log(w, c, level, msg) ==
    IF level = "error"
    THEN [w EXCEPT !.obs[c].errors = @ + 1, !.obs[c].lastError = msg]
    ELSE w

\* ------------------------------------------------------- the pooled client
NoClient == [uniqueId |-> 0, patched |-> FALSE, namedParameters |-> FALSE,
             queryLayers |-> 0, release |-> "none", nativeEp |-> 0,
             txnMethods |-> FALSE, lastQuery |-> NoQuery,
             isQueryRunning |-> FALSE, isWithinTransaction |-> FALSE,
             sanityTimeout |-> 0]

\* A suspended async frame: what runs when the driver call it awaits settles.
\*   kind: "query"    a handler awaits client.query()
\*         "begin"    a handler awaits (async)BeginTransaction
\*         "commit"   a handler awaits (async)CommitTransaction
\*         "detached" part_001 release(): the rollback promise nobody awaits
\*         "release"  part_000 release(): awaits asyncTryRollback, then goes on
\*   by:   who awaits the release ("holder", "hook", "cleanup", "timer")
\*   nep:  the checkout whose native release the frame's closure holds
Cont(kind, by, r, nep) == [kind |-> kind, by |-> by, r |-> r, nep |-> nep]

\* the patched client.query up to its await: records lastQuery, raises the
\* running flag and hands the text to the driver, which queues it on c.
query(w, c, text, k) ==
    LET shown == IF w.variant = "database.js" THEN text ELSE trimmedText(text)
        w1 == [w EXCEPT !.cl[c].lastQuery = shown,
                        !.cl[c].isQueryRunning = TRUE]
        w2 == Sent(w1, c, text)
    IN  [w2 EXCEPT !.queue[c] = Append(@, [text |-> text,
                                            layers |-> w.cl[c].queryLayers,
                                            k |-> k])]

\* clearTimeout(handle) on the timer table
clearTimeout(w, c, h) == [w EXCEPT !.pending[c] = @ \ {h}]

\* the pool's own release for checkout k of c: the first invocation during
\* that checkout returns c to the pool; any other invocation is a double
\* release (recorded, the pool's state is left alone).
oldReleaseMethod(w, c, k) ==
    IF k = w.epoch[c]
    THEN [w EXCEPT !.obs[c].natives = @ + 1, !.idle[c] = TRUE]
    ELSE [w EXCEPT !.obs[c].stale = @ + 1]

\* a rollback that leaves isWithinTransaction set
rollbackKeepingFlag(w, c, k) ==
    IF w.cl[c].isWithinTransaction
    THEN query(Log(w, c, "warn", "Rolling back transaction"), c, ROLLBACK, k)
    ELSE w

\* part_001 client.rollbackTransactionIfNotCommitted, up to its await
rollbackTransactionIfNotCommitted(w, c, k) ==
    IF w.cl[c].isWithinTransaction
    THEN LET w1 == [w EXCEPT !.cl[c].isWithinTransaction = FALSE]
             w2 == Log(w1, c, "warn", "Rolling back transaction")
         IN  query(w2, c, ROLLBACK, k)
    ELSE w

\* an asyncTryRollback that dispatches ROLLBACK with the flag still set
asyncTryRollbackFlagLast(w, c, k) ==
    IF w.cl[c].isWithinTransaction
    THEN query(Log(w, c, "warn", "ROLLBACK <"), c, ROLLBACK, k)
    ELSE w

\* part_000 client.asyncTryRollback, up to its await
asyncTryRollback(w, c, k) ==
    IF w.cl[c].isWithinTransaction
    THEN LET w1 == Log(w, c, "warn", "ROLLBACK <")
             w2 == [w1 EXCEPT !.cl[c].isWithinTransaction = FALSE]
         IN  query(w2, c, ROLLBACK, k)
    ELSE w

\* "Clear our timeout and state which checks for unreleased clients" followed
\* by "Actually release": the part the three release wrappers share.
releaseTail(w, c, nep) ==
    LET w1 == [w EXCEPT !.cl[c].isQueryRunning = FALSE]
        h  == w1.cl[c].sanityTimeout
        w2 == IF h # 0
              THEN [clearTimeout(w1, c, h) EXCEPT !.cl[c].sanityTimeout = 0]
              ELSE w1
    IN  oldReleaseMethod(w2, c, nep)

\* database.js: the patched client.release
release_db(w, c) == releaseTail(w, c, w.cl[c].nativeEp)

\* a release that sends ROLLBACK whether or not a transaction is open
releaseAlwaysRollingBack(w, c) ==
    LET nep == w.cl[c].nativeEp
        w1  == query(w, c, ROLLBACK, Cont("detached", "", 0, nep))
    IN  releaseTail(w1, c, nep)

\* part_001: the patched client.release; the rollback is started, not awaited
release_p1(w, c) ==
    LET nep == w.cl[c].nativeEp
        w1  == rollbackTransactionIfNotCommitted(w, c, Cont("detached", "", 0, nep))
    IN  releaseTail(w1, c, nep)

\* part_000: the patched client.release up to `await this.asyncTryRollback()`
release_p0(w, c, by, r) ==
    asyncTryRollback(w, c, Cont("release", by, r, w.cl[c].nativeEp))

\* TRUE when a release() called now stays suspended on its ROLLBACK
Suspends(w, c) ==
    /\ w.variant = "part_000"
    /\ w.cl[c].release = "wrapped"
    /\ w.cl[c].isWithinTransaction

\* client.release() as the caller sees it, up to the first await: whatever
\* function the property `release` holds at the time of the call.
clientReleaseHead(w, c, by, r) ==
    LET w1 == [w EXCEPT !.obs[c].relCalls = @ + 1, !.obs[c].relLast = TRUE]
    IN  CASE w.cl[c].release = "native"  -> oldReleaseMethod(w1, c, w.cl[c].nativeEp)
          [] w.variant = "database.js"   -> release_db(w1, c)
          [] w.variant = "part_001"      -> release_p1(w1, c)
          [] OTHER                       -> release_p0(w1, c, by, r)

\* ... and the rest of it when nothing had to be awaited (part_000 resumes in
\* the same task, after the caller's synchronous code)
clientReleaseRest(w0, w, c) ==
    IF w0.variant = "part_000" /\ w0.cl[c].release = "wrapped" /\ ~Suspends(w0, c)
    THEN releaseTail(w, c, w0.cl[c].nativeEp)
    ELSE w

clientRelease(w, c, by, r) == clientReleaseRest(w, clientReleaseHead(w, c, by, r), c)


\* ------------------------------------------------------ Lifecycle Manager
\* database.js patchClient: wraps query and release (called once per client)
patchClient_db(w, c) ==
    [w EXCEPT !.cl[c].namedParameters = TRUE,
              !.cl[c].queryLayers = @ + 1,
              !.cl[c].release = "wrapped"]

\* part_001 / part_000 patchClient: every override behind its own marker.
\* The pool has just installed its own release, which carries no marker.
patchClient(w, c) ==
    [w EXCEPT !.cl[c].namedParameters = TRUE,
              !.cl[c].queryLayers = IF @ = 0 THEN 1 ELSE @,
              !.cl[c].release = "wrapped",
              !.cl[c].txnMethods = TRUE]

\* pool.connect() resolving with c: the pool marks it busy and installs the
\* native release of the new checkout on it.
connect(w, c, r) ==
    LET k  == w.epoch[c] + 1
        w1 == [w EXCEPT !.idle[c] = FALSE, !.epoch[c] = k,
                        !.cl[c].release = "native", !.cl[c].nativeEp = k,
                        !.budget.calls = @ - 1]
        leftover == \/ w.queue[c] # <<>>
                    \/ w.cl[c].isWithinTransaction
                    \/ \E q \in DOMAIN w.req :
                          q # r /\ \E i \in DOMAIN w.req[q].held : w.req[q].held[i] = c
    IN  [w1 EXCEPT !.obs[c] = [NoObs EXCEPT !.holder = r, !.shared = leftover]]

\* setTimeout(callback, ms): the handle is the number of the checkout
setTimeout(w, c) ==
    [w EXCEPT !.cl[c].sanityTimeout = w.epoch[c],
              !.pending[c] = @ \cup {w.epoch[c]}]

\* database.js getClient, after `await this.pool.connect()`
getClient(w, c) ==
    LET w1 == IF ~w.cl[c].patched
              THEN patchClient_db([w EXCEPT !.cl[c].patched = TRUE], c)
              ELSE w
        h  == w1.cl[c].sanityTimeout
        w2 == IF h # 0
              THEN clearTimeout(Log(w1, c, "error",
                       "Client is busy and still got returned from pool"), c, h)
              ELSE w1
    IN  setTimeout(w2, c)

\* a getClientUnsafe that names the client anew at every checkout
getClientUnsafeRenaming(w, c) ==
    LET w1 == [w EXCEPT !.cl[c].uniqueId = w.clientIdCounter,
                        !.clientIdCounter = @ + 1]
        w2 == patchClient(w1, c)
        h  == w2.cl[c].sanityTimeout
        w3 == IF h # 0
              THEN [clearTimeout(w2, c, h) EXCEPT !.cl[c].sanityTimeout = 0]
              ELSE w2
    IN  setTimeout(w3, c)

\* part_001 / part_000 getClientUnsafe, after `await this.pool.connect()`
getClientUnsafe(w, c) ==
    LET w1 == IF w.cl[c].uniqueId = 0
              THEN [w EXCEPT !.cl[c].uniqueId = w.clientIdCounter,
                             !.clientIdCounter = @ + 1]
              ELSE w
        w2 == patchClient(w1, c)
        h  == w2.cl[c].sanityTimeout
        w3 == IF h # 0
              THEN [clearTimeout(Log(w2, c, "error",
                        "Client is busy and still got returned from pool"), c, h)
                     EXCEPT !.cl[c].sanityTimeout = 0]
              ELSE w2
        w4 == IF w3.cl[c].isQueryRunning
              THEN Log(w3, c, "error",
                       "Client is running query and still got returned from pool")
              ELSE w3
    IN  setTimeout(w4, c)

\* the leak report as the sink last written to got it (the monitoring
\* collaborator when it is installed, the error log otherwise)
Report(w, c, sink, withRunning) ==
    [w EXCEPT !.obs[c].report.lastQuery = w.cl[c].lastQuery,
              !.obs[c].report.stillRunning =
                  IF ~withRunning THEN "absent"
                  ELSE IF w.cl[c].isQueryRunning THEN "true" ELSE "false"]

\* the timer expires: the handle leaves the timer table, the callback runs
Expire(w, c, h) ==
    [clearTimeout(w, c, h) EXCEPT !.obs[c].fired = @ + 1]

\* database.js: the callback handed to setTimeout
sanityTimeout_db(w, c, apm) ==
    LET w1 == Report(w, c, "log", TRUE)
        w2 == clientRelease(w1, c, "timer", 0)
    IN  IF apm THEN Report(w2, c, "apm", FALSE) ELSE w2

\* part_001 / part_000: the callback handed to setTimeout.  The report is
\* written when client.release() has returned to the callback.
sanityTimeout(w, c, apm) ==
    LET w1 == clientReleaseHead(w, c, "timer", 0)
        w2 == Report(w1, c, IF apm THEN "apm" ELSE "log", TRUE)
    IN  clientReleaseRest(w, w2, c)


\* ------------------------------------------- request-scoped acquisition
NoRequest == [pc |-> "new", wait |-> FALSE, idx |-> 0, dec |-> 0,
              decName |-> "", ret |-> 0,
              dbClients |-> <<>>, cleanup |-> <<>>, held |-> <<>>,
              gone |-> {},
              errored |-> FALSE]   \* the onError hook has run for the request

\* the request property the Database binds clients under: database.js reads
\* the constructor option clientDecorator (default "dbClient"), which the
\* plugin never passes; part_001 / part_000 read requestDecorator
decorator(w) ==
    IF w.variant = "database.js" THEN "dbClient" ELSE w.boot.requestDecorator

\* an acquisition that swallows the pool's failure, uses up an identity and
\* lets the handler run without a client
connectSwallowed(w, r) ==
    [w EXCEPT !.req[r].pc = "handler", !.clientIdCounter = @ + 1,
              !.budget.failures = @ - 1]

\* `await this.pool.connect()` rejects: getClient / getClientUnsafe stops
\* there, requireDbClient()'s middleware rejects with the same error and the
\* request takes fastify's error path
connectRejected(w, r) ==
    [w EXCEPT !.req[r].pc = "onError", !.budget.failures = @ - 1]

\* requireDbClient()'s middleware, after the client has been acquired:
\* request[name] = client, the client is remembered for the hooks, and
\* (part_001 / part_000) returned; database.js returns nothing
bind(w, r, c) ==
    LET w1 == [w EXCEPT !.req[r].dec = c, !.req[r].decName = decorator(w),
                        !.req[r].ret = IF w.variant = "database.js" THEN 0 ELSE c,
                        !.req[r].held = Append(@, c),
                        !.req[r].pc = "handler"]
    IN  IF w.variant = "database.js" THEN w1
        ELSE IF w.addCleanupWork
             THEN [w1 EXCEPT !.req[r].cleanup = Append(@, c)]
             ELSE [w1 EXCEPT !.req[r].dbClients = Append(@, c)]

\* where a request goes when a hook or the cleanup work is through
nextPhase(w, r) ==
    LET pc == w.req[r].pc
        to == CASE pc = "onError" -> "onSend"
                [] pc = "onSend"  -> IF w.addCleanupWork /\ w.variant # "database.js"
                                     THEN "cleanup" ELSE "done"
                [] OTHER          -> "done"
    IN  IF to = "done" THEN [w EXCEPT !.req[r] = [NoRequest EXCEPT !.pc = "done"]]
        ELSE [w EXCEPT !.req[r].pc = to, !.req[r].wait = FALSE, !.req[r].idx = 0,
                       !.req[r].errored = @ \/ (pc = "onError")]

\* the list a phase walks: request.dbClients, or the registered cleanup work
phaseList(w, r) ==
    IF w.req[r].pc = "cleanup" THEN w.req[r].cleanup ELSE w.req[r].dbClients

\* the hooks' last statement: request.dbClients = []
clearList(w, r) ==
    IF w.req[r].pc = "cleanup" THEN w ELSE [w EXCEPT !.req[r].dbClients = <<>>]

\* part_000 hook body from clients[i] on: `await clients[i].release()` in a
\* loop; part_001: clients.forEach(client => client.release()).
RECURSIVE releaseFrom(_, _, _)
releaseFrom(w, r, i) ==
    LET list == phaseList(w, r)
    IN  IF i > Len(list) THEN nextPhase(clearList(w, r), r)
        ELSE LET c  == list[i]
                 by == IF w.req[r].pc = "cleanup" THEN "cleanup" ELSE "hook"
             IN  IF Suspends(w, c)
                 THEN [clientReleaseHead(w, c, by, r) EXCEPT
                           !.req[r].wait = TRUE, !.req[r].idx = i]
                 ELSE releaseFrom(clientRelease(w, c, by, r), r, i + 1)

\* database.js hook body: release request[clientDecorator] if it is set
releaseDecorated(w, r) ==
    LET c == w.req[r].dec
    IN  nextPhase(IF c # 0 THEN clientRelease(w, c, "hook", r) ELSE w, r)

\* a hook that forgets the clients instead of releasing them
hookForgetting(w, r) == nextPhase(clearList(w, r), r)

hookBody(w, r) ==
    IF w.variant = "database.js" THEN releaseDecorated(w, r) ELSE releaseFrom(w, r, 1)

\* a handler gets the outcome of the call it awaited
resume(w, c, r, method, value) ==
    LET w1 == [Used(w, c) EXCEPT
                  !.req[r].pc = IF value = "throw" THEN "caught" ELSE "handler"]
    IN  IF method = "query" THEN w1 ELSE Returned(w1, c, r, method, value)

\* the frame that awaited a driver call goes on (ok) or gets the error
continue(w, c, e, ok) ==
    LET k   == e.k
        val == IF ok THEN "ok" ELSE "throw"
    IN  CASE k.kind = "query" -> resume(w, c, k.r, "query", val)
          [] k.kind = "begin" ->
                LET w1 == IF ok /\ w.variant = "part_001"
                          THEN [w EXCEPT !.cl[c].isWithinTransaction = TRUE]
                          ELSE w
                IN  resume(w1, c, k.r, "beginTransaction", val)
          [] k.kind = "commit" ->
                LET w1 == IF ok /\ w.variant = "part_000"
                          THEN [w EXCEPT !.cl[c].isWithinTransaction = FALSE]
                          ELSE w
                IN  resume(w1, c, k.r, "commitTransaction", val)
          [] k.kind = "release" ->
                LET w1 == IF ok THEN releaseTail(w, c, k.nep) ELSE w
                    w2 == w1
                IN  CASE k.by = "holder" ->
                            [w2 EXCEPT !.req[k.r].pc = IF ok THEN "handler" ELSE "caught"]
                      [] k.by \in {"hook", "cleanup"} ->
                            IF ok THEN releaseFrom(w2, k.r, w2.req[k.r].idx + 1)
                            ELSE nextPhase(w2, k.r)
                      [] OTHER -> w2
          [] OTHER -> w

\* a query wrapper that swallows the driver's error and leaves the running
\* flag up
settledSwallowing(w, c, ok) ==
    LET e  == Head(w.queue[c])
        w1 == [w EXCEPT !.queue[c] = Tail(@),
                        !.budget.failures = IF ok THEN @ ELSE @ - 1]
    IN  continue(w1, c, e, TRUE)

\* client.query after its await: catch (log, rethrow) and finally
settled(w, c, ok) ==
    LET e  == Head(w.queue[c])
        w1 == [w EXCEPT !.queue[c] = Tail(@),
                        !.budget.failures = IF ok THEN @ ELSE @ - 1]
        w2 == IF ok THEN w1 ELSE Log(w1, c, "error", "Database query error")
        w3 == [w2 EXCEPT !.cl[c].isQueryRunning = FALSE]
    IN  continue(w3, c, e, ok)


\* ------------------------------------------------- transaction operations
\* one of the calls a behaviour may make is spent
spend(w) == [w EXCEPT !.budget.calls = @ - 1]

\* ---------------------------------------------------- pool-level query
\* the params argument: absent, or an object of named parameters
PoolParams == {"none", "named"}

NoPoolQuery == [phase |-> "none", text |-> NoQuery, params |-> "none",
                result |-> <<>>]

\* what the pool answers to query(text, params)
PoolResult(text, params) == <<"rows of", text, params>>

\* a Database.query that tidies the text up before it hands it to the pool
databaseQueryTrimming(w, text, params) ==
    [spend(w) EXCEPT !.poolQuery = [phase |-> "running", text |-> trimmedText(text),
                                    params |-> params, result |-> <<>>]]

\* Database.query up to its await: `this.pool.query(text, params)`
databaseQuery(w, text, params) ==
    [spend(w) EXCEPT !.poolQuery = [phase |-> "running", text |-> text,
                                    params |-> params, result |-> <<>>]]

\* Database.query after its await: the pool's result is returned as it is, a
\* rejection goes to the caller (there is no catch)
databaseQuerySettled(w, ok) ==
    IF ok
    THEN [w EXCEPT !.poolQuery.phase = "returned",
                   !.poolQuery.result = PoolResult(w.poolQuery.text, w.poolQuery.params)]
    ELSE [w EXCEPT !.poolQuery.phase = "threw", !.budget.failures = @ - 1]

suspend(w, r) == [w EXCEPT !.req[r].pc = "await"]

refuse(w, c, r, method, msg) ==
    Returned(Log(w, c, "error", msg), c, r, method, "false")

\* a beginTransaction without the in-transaction guard
beginUnguarded(w, c, r) ==
    suspend(query(w, c, BEGIN, Cont("begin", "holder", r, 0)), r)

\* part_001 client.beginTransaction, up to its await
beginTransaction(w, c, r) ==
    IF w.cl[c].isWithinTransaction
    THEN refuse(w, c, r, "beginTransaction", "Tried to start transaction in transaction")
    ELSE suspend(query(w, c, BEGIN, Cont("begin", "holder", r, 0)), r)

\* part_000 client.asyncBeginTransaction, up to its await
asyncBeginTransaction(w, c, r) ==
    IF w.cl[c].isWithinTransaction
    THEN refuse(w, c, r, "beginTransaction", "Tried to start transaction in transaction")
    ELSE LET w1 == [w EXCEPT !.cl[c].isWithinTransaction = TRUE]
         IN  suspend(query(w1, c, BEGIN, Cont("begin", "holder", r, 0)), r)

\* part_001 client.commitTransaction, up to its await
commitTransaction(w, c, r) ==
    IF ~w.cl[c].isWithinTransaction
    THEN refuse(w, c, r, "commitTransaction",
                "Tried to commit transaction outside of transaction")
    ELSE LET w1 == [w EXCEPT !.cl[c].isWithinTransaction = FALSE]
         IN  suspend(query(w1, c, COMMIT, Cont("commit", "holder", r, 0)), r)

\* a commit without the outside-of-transaction guard
commitUnguarded(w, c, r) ==
    suspend(query(w, c, COMMIT, Cont("commit", "holder", r, 0)), r)

\* part_000 client.asyncCommitTransaction, up to its await
asyncCommitTransaction(w, c, r) ==
    IF ~w.cl[c].isWithinTransaction
    THEN refuse(w, c, r, "commitTransaction",
                "Tried to commit transaction outside of transaction")
    ELSE suspend(query(w, c, COMMIT, Cont("commit", "holder", r, 0)), r)

\* --------------------------------------------------------------- the plugin
NotStarted == [phase |-> "starting", requestDecorator |-> "",
               hooks |-> FALSE, decorated |-> FALSE]

\* a plugin that goes on without a database when the probe fails
postgresDbConnectorDegraded(w, c, ok) ==
    LET requestDecorator == IF w.options.requestDecoratorName = "" THEN "dbClient"
                            ELSE w.options.requestDecoratorName
    IN  [w EXCEPT !.boot = [phase |-> IF ok THEN "ready" ELSE "exited",
                            requestDecorator |-> requestDecorator,
                            hooks |-> TRUE, decorated |-> TRUE]]

\* postgresDbConnector: the probe pool.connect() resolved with c (ok) or
\* rejected.  On rejection: process.exit(-1).  Otherwise the probe client is
\* released at once, the Database is built, its hooks are registered and the
\* server is decorated with it.
postgresDbConnector(w, c, ok) ==
    LET requestDecorator == IF w.options.requestDecoratorName = ""
                            THEN "dbClient" ELSE w.options.requestDecoratorName
        k  == w.epoch[c] + 1
        w1 == [w EXCEPT !.idle[c] = FALSE, !.epoch[c] = k,
                        !.cl[c].release = "native", !.cl[c].nativeEp = k]
        w2 == oldReleaseMethod(w1, c, k)
    IN  IF ~ok THEN [w EXCEPT !.boot.phase = "exited"]
        ELSE [w2 EXCEPT !.boot = [phase |-> "ready",
                                  requestDecorator |-> requestDecorator,
                                  hooks |-> TRUE, decorated |-> TRUE]]

\* ----------------------------------------------------------------- actions
Range(q) == {q[i] : i \in DOMAIN q}

\* A hook (or the cleanup work) that is due runs before any other task: fastify
\* starts it in the continuation of the handler's promise, or of the hook
\* before it, and continuations run before timers and I/O callbacks.
HookDue == \E r \in Requests :
              req[r].pc \in {"onError", "onSend", "cleanup"} /\ ~req[r].wait

\* the clients a handler may still use: those it acquired and has not released
Usable(r) == Range(req[r].held) \ req[r].gone

CanCall(r, c) == /\ ~HookDue
                 /\ req[r].pc = "handler"
                 /\ c \in Usable(r)
                 /\ budget.calls > 0

\* requireDbClient(): the pool hands connection c to request r
RequireDbClient(r, c) ==
    /\ boot.decorated
    /\ ~HookDue
    /\ req[r].pc \in {"new", "handler"}
    /\ \A q \in Requests : q < r => req[q].pc # "new"
    /\ idle[c]
    /\ \A d \in Clients : d < c => obs[d].holder # 0
    /\ budget.calls > 0
    /\ LET w1 == connect(World, c, r)
           w2 == IF variant = "database.js" THEN getClient(w1, c)
                 ELSE getClientUnsafe(w1, c)
       IN  Becomes(bind(w2, r, c))

\* requireDbClient(): pool.connect() rejects, the request takes the error path
ConnectFails(r) ==
    /\ boot.decorated
    /\ ~HookDue
    /\ req[r].pc = "new"
    /\ \A q \in Requests : q < r => req[q].pc # "new"
    /\ budget.failures > 0
    /\ Becomes(connectRejected(World, r))

\* the handler awaits client.query(text)
Query(r, c) ==
    /\ CanCall(r, c)
    /\ LET w1 == Used(spend(World), c)
       IN  Becomes(suspend(query(w1, c, SELECT, Cont("query", "holder", r, 0)), r))

\* the handler awaits client.beginTransaction() / asyncBeginTransaction()
Begin(r, c) ==
    /\ CanCall(r, c)
    /\ variant # "database.js"
    /\ LET w1 == Called(spend(World), c, r, "beginTransaction")
       IN  Becomes(IF variant = "part_001" THEN beginTransaction(w1, c, r)
                   ELSE asyncBeginTransaction(w1, c, r))

\* the handler awaits client.commitTransaction() / asyncCommitTransaction()
Commit(r, c) ==
    /\ CanCall(r, c)
    /\ variant # "database.js"
    /\ LET w1 == Called(spend(World), c, r, "commitTransaction")
       IN  Becomes(IF variant = "part_001" THEN commitTransaction(w1, c, r)
                   ELSE asyncCommitTransaction(w1, c, r))

\* the handler releases its client itself and awaits that
Release(r, c) ==
    /\ CanCall(r, c)
    /\ LET w0 == [spend(World) EXCEPT !.req[r].gone = @ \cup {c}]
           w1 == clientRelease(w0, c, "holder", r)
       IN  Becomes(IF Suspends(w0, c) THEN suspend(w1, r) ELSE w1)

\* the handler catches the error of the call it awaited and goes on
Catch(r) ==
    /\ ~HookDue
    /\ req[r].pc = "caught"
    /\ Becomes([World EXCEPT !.req[r].pc = "handler"])

\* the handler throws: fastify runs the onError hooks, then sends the error
Throw(r) ==
    /\ ~HookDue
    /\ req[r].pc \in {"handler", "caught"}
    /\ Becomes([World EXCEPT
           !.req[r].pc = "onError",
           !.obs = [c \in Clients |->
                      IF /\ c \in Usable(r) /\ obs[c].holder = r /\ ~idle[c]
                         /\ cl[c].isWithinTransaction /\ queue[c] = <<>>
                      THEN [obs[c] EXCEPT !.threw = obs[c].sent.rollback]
                      ELSE obs[c]]])

\* the handler returns: fastify sends the reply
Return(r) ==
    /\ ~HookDue
    /\ req[r].pc = "handler"
    /\ Becomes([World EXCEPT !.req[r].pc = "onSend"])

\* the onError hook registered by registerHooks()
OnError(r) ==
    /\ boot.hooks
    /\ req[r].pc = "onError" /\ ~req[r].wait
    /\ Becomes(hookBody(World, r))

\* the onSend hook registered by registerHooks()
OnSend(r) ==
    /\ boot.hooks
    /\ req[r].pc = "onSend" /\ ~req[r].wait
    /\ Becomes(hookBody(World, r))

\* the cleanup work registered with fastify.addCleanupWork
CleanupWork(r) ==
    /\ req[r].pc = "cleanup" /\ ~req[r].wait
    /\ Becomes(releaseFrom(World, r, 1))

\* the driver call at the head of c's queue resolves (ok) or rejects
Settle(c, ok) ==
    /\ ~HookDue
    /\ queue[c] # <<>>
    /\ ok \/ budget.failures > 0
    /\ Becomes(settled(World, c, ok))

\* a caller awaits Database.query(text, params)
DatabaseQuery(text, params) ==
    /\ boot.decorated
    /\ ~HookDue
    /\ poolQuery.phase # "running"
    /\ budget.calls > 0
    /\ Becomes(databaseQuery(World, text, params))

\* pool.query() resolves (ok) or rejects
DatabaseQuerySettles(ok) ==
    /\ ~HookDue
    /\ poolQuery.phase = "running"
    /\ ok \/ budget.failures > 0
    /\ Becomes(databaseQuerySettled(World, ok))

\* the leak timer armed for checkout h of c expires
TimerFires(c, h, apm) ==
    /\ ~HookDue
    /\ h \in pending[c]
    /\ LET w1 == Expire(World, c, h)
       IN  Becomes(IF variant = "database.js" THEN sanityTimeout_db(w1, c, apm)
                   ELSE sanityTimeout(w1, c, apm))

\* the plugin starts: its probe connection is made and released
Startup ==
    /\ boot.phase = "starting"
    /\ Becomes(postgresDbConnector(World, 1, TRUE))

\* the plugin starts and the database cannot be reached
StartupFails ==
    /\ boot.phase = "starting"
    /\ Becomes(postgresDbConnector(World, 1, FALSE))

Init ==
    /\ options \in [requestDecoratorName : {"", "pgClient"}]
    /\ boot = NotStarted
    /\ variant \in Variants
    /\ addCleanupWork \in BOOLEAN
    /\ variant = "database.js" => ~addCleanupWork
    /\ clientIdCounter = 1
    /\ cl = [c \in Clients |-> NoClient]
    /\ idle = [c \in Clients |-> TRUE]
    /\ epoch = [c \in Clients |-> 0]
    /\ pending = [c \in Clients |-> {}]
    /\ queue = [c \in Clients |-> <<>>]
    /\ req = [r \in Requests |-> NoRequest]
    /\ obs = [c \in Clients |-> NoObs]
    /\ poolQuery = NoPoolQuery
    /\ budget = [calls |-> MaxCalls, failures |-> MaxFailures]

Next ==
    \/ Startup
    \/ StartupFails
    \/ \E r \in Requests, c \in Clients : RequireDbClient(r, c)
    \/ \E r \in Requests : ConnectFails(r)
    \/ \E r \in Requests, c \in Clients : Query(r, c)
    \/ \E r \in Requests, c \in Clients : Begin(r, c)
    \/ \E r \in Requests, c \in Clients : Commit(r, c)
    \/ \E r \in Requests, c \in Clients : Release(r, c)
    \/ \E r \in Requests : Catch(r)
    \/ \E r \in Requests : Throw(r)
    \/ \E r \in Requests : Return(r)
    \/ \E r \in Requests : OnError(r)
    \/ \E r \in Requests : OnSend(r)
    \/ \E r \in Requests : CleanupWork(r)
    \/ \E c \in Clients, ok \in BOOLEAN : Settle(c, ok)
    \/ \E params \in PoolParams : DatabaseQuery(SELECT, params)
    \/ \E ok \in BOOLEAN : DatabaseQuerySettles(ok)
    \/ \E c \in Clients, h \in 1..(MaxCalls + 1), apm \in BOOLEAN : TimerFires(c, h, apm)

Spec == Init /\ [][Next]_vars


\* ----------------------------------------------------------------- claims
\* a step in which client.release() is called on c during its current checkout
ReleaseCalled(c) == /\ epoch'[c] = epoch[c]
                    /\ obs'[c].relCalls > obs[c].relCalls

\* a step in which the leak timer of c expires
Fired(c) == /\ epoch'[c] = epoch[c]
            /\ obs'[c].fired > obs[c].fired

\* the handler's calls so far in this checkout: begin -> query* -> commit, all
\* returned (the commit resolved or rejected)
Committed(c) ==
    /\ queue[c] = <<>>
    /\ Len(obs[c].hist) = 2
    /\ obs[c].hist[1] = <<"beginTransaction", "ok", obs[c].holder>>
    /\ obs[c].hist[2] \in {<<"commitTransaction", "ok", obs[c].holder>>,
                           <<"commitTransaction", "throw", obs[c].holder>>}

\* ... begin -> query*, returned, and no commit, on a checkout the holder
\* has to itself
Begun(c) ==
    /\ ~obs[c].shared
    /\ queue[c] = <<>>
    /\ obs[c].hist = << <<"beginTransaction", "ok", obs[c].holder>> >>

\* C1: after beginTransaction -> query* -> commitTransaction, a release() of
\* the same checkout hands no ROLLBACK to the driver.
C1_NoRollbackAfterCommit ==
    [][\A c \in Clients :
          Committed(c) /\ ReleaseCalled(c)
              => obs'[c].sent.rollback = obs[c].sent.rollback]_vars

\* C1 where it holds: the commit resolved
C1_NoRollbackAfterCommitOk ==
    [][\A c \in Clients :
          /\ Committed(c)
          /\ obs[c].hist[2][2] = "ok"
          /\ ReleaseCalled(c)
          => obs'[c].sent.rollback = obs[c].sent.rollback]_vars

\* C1 witness: a committed transaction, released, with the COMMIT the only
\* terminal statement
C1_Witness ==
    \E c \in Clients :
        /\ Committed(c) /\ obs[c].relCalls = 1 /\ obs[c].natives = 1
        /\ obs[c].sent.rollback = 0


\* C2: after beginTransaction -> query* with no commit, the release() of the
\* checkout hands exactly one ROLLBACK to the driver, and inTransaction is
\* false when that release() has returned the connection.
C2_OneRollbackWithoutCommit ==
    [][\A c \in Clients :
          /\ (Begun(c) /\ obs[c].relCalls = 0 /\ ReleaseCalled(c))
                => /\ obs'[c].sent.rollback = obs[c].sent.rollback + 1
                   /\ obs'[c].sent.rollback = 1
                   /\ ~cl'[c].isWithinTransaction
          /\ (/\ obs[c].hist = << <<"beginTransaction", "ok", obs[c].holder>> >>
              /\ ~obs[c].shared
              /\ epoch'[c] = epoch[c]
              /\ obs'[c].hist = obs[c].hist
              /\ obs[c].natives = 0 /\ obs'[c].natives = 1)
                => /\ obs'[c].sent.rollback = 1
                   /\ ~cl'[c].isWithinTransaction]_vars

\* C2 witness: begin, no commit, released with its one ROLLBACK sent
C2_Witness ==
    \E c \in Clients :
        /\ obs[c].hist = << <<"beginTransaction", "ok", obs[c].holder>> >>
        /\ obs[c].relCalls = 1 /\ obs[c].natives = 1
        /\ obs[c].sent.rollback = 1 /\ obs[c].sent.commit = 0
        /\ ~cl[c].isWithinTransaction /\ ~obs[c].shared

\* the step of the error path that releases: the onError hook, or the cleanup
\* work when it is installed
ErrorPathRuns(r) ==
    \/ OnError(r) /\ ~(addCleanupWork /\ variant # "database.js")
    \/ CleanupWork(r)

\* the client the error path of r releases first
FirstClient(r) ==
    LET list == IF req[r].pc = "cleanup" THEN req[r].cleanup ELSE req[r].dbClients
    IN  IF list = <<>> THEN 0 ELSE Head(list)

\* C3: the handler threw inside a transaction: when the pool's native release
\* has returned the connection, exactly one ROLLBACK has been sent since the
\* throw; and the hook or cleanup work that runs next calls release() on the
\* request's client, which hands that ROLLBACK to the driver.

C3_ErrorPathRollsBackOnce ==
    [][\A c \in Clients :
          /\ (obs'[c].threw >= 0 /\ obs'[c].natives >= 1 /\ ~obs'[c].shared)
                => obs'[c].sent.rollback = obs'[c].threw + 1
          /\ \A r \in Requests :
                (/\ obs[c].threw >= 0 /\ obs[c].holder = r /\ obs[c].relCalls = 0
                 /\ ~obs[c].shared
                 /\ c = FirstClient(r)
                 /\ ErrorPathRuns(r))
                    => /\ ReleaseCalled(c)
                       /\ obs'[c].sent.rollback = obs[c].threw + 1]_vars

\* C3 witness: thrown inside a transaction, released by the error path, the
\* connection back in the pool after one ROLLBACK
C3_Witness ==
    \E c \in Clients :
        /\ obs[c].threw = 0 /\ obs[c].natives = 1 /\ idle[c]
        /\ obs[c].sent.rollback = 1 /\ obs[c].fired = 0
        /\ obs[c].hist = << <<"beginTransaction", "ok", obs[c].holder>> >>
        /\ ~obs[c].shared


\* C4: for every checkout the pool's native release is invoked at most once:
\* never twice during the checkout, never again after the connection has been
\* handed out anew.
C4_NoDoubleRelease ==
    \A c \in Clients : obs[c].natives <= 1 /\ obs[c].stale = 0


\* C5: the leak timer of a checkout expires at most once, and its callback
\* performs the whole release exactly once for the checkout: the connection
\* had not been returned before, an open transaction gets its ROLLBACK, the
\* timer handle is cleared, and the native release returns the connection
\* (at once, or when the awaited ROLLBACK has settled) one time only.
C5_ForcedReleaseExactlyOnce ==
    [][\A c \in Clients :
          /\ Fired(c) =>
                /\ obs[c].fired = 0
                /\ obs[c].natives = 0
                /\ ReleaseCalled(c)
                /\ cl[c].isWithinTransaction
                      => obs'[c].sent.rollback = obs[c].sent.rollback + 1
                /\ ~cl'[c].isWithinTransaction
                /\ queue'[c] = <<>>
                      => /\ cl'[c].sanityTimeout = 0
                         /\ idle'[c]
                         /\ obs'[c].natives = 1
          /\ (obs'[c].fired >= 1 /\ epoch'[c] = epoch[c] /\ queue'[c] = <<>>)
                => /\ obs'[c].natives = 1
                   /\ obs'[c].stale = 0]_vars


\* C6: once release() has returned the connection of a checkout, no leak
\* timer expires on that connection before it is handed out again; and a
\* release() after a resolved query returns the connection without error.
C6_TimerInertAfterRelease ==
    [][\A c \in Clients :
          /\ Fired(c) => obs[c].natives = 0
          /\ (/\ ReleaseCalled(c) /\ obs[c].relCalls = 0
              /\ obs[c].hist = <<>> /\ queue[c] = <<>>)
                => /\ obs'[c].natives >= 1 /\ idle'[c]
                   /\ obs'[c].errors = obs[c].errors]_vars


\* C7: the report written when the leak timer expires carries the lastQuery
\* the client had at the moment of expiry.
C7_ReportHasLastQuery ==
    [][\A c \in Clients :
          Fired(c) => obs'[c].report.lastQuery = cl[c].lastQuery]_vars


\* C8: beginTransaction() called while the client is in a transaction logs an
\* error, returns false, hands nothing to the driver and leaves
\* isWithinTransaction true; after begin; begin exactly one BEGIN was sent.
C8_BeginInTransactionRefused ==
    [][\A r \in Requests, c \in Clients :
          /\ (Begin(r, c) /\ cl[c].isWithinTransaction)
                => /\ obs'[c].errors = obs[c].errors + 1
                   /\ obs'[c].lastError = "Tried to start transaction in transaction"
                   /\ obs'[c].hist = Append(obs[c].hist, <<"beginTransaction", "false", r>>)
                   /\ obs'[c].sent = obs[c].sent
                   /\ queue' = queue
                   /\ cl'[c].isWithinTransaction
                   /\ req'[r].pc = "handler"
          /\ (/\ Len(obs'[c].hist) = 2
              /\ obs'[c].hist[1] = <<"beginTransaction", "ok", r>>
              /\ obs'[c].hist[2] = <<"beginTransaction", "false", r>>)
                => obs'[c].sent.begin = 1]_vars

\* C8 witness: begin; begin on one checkout, the second one refused
C8_Witness ==
    \E c \in Clients :
        /\ obs[c].hist = << <<"beginTransaction", "ok", obs[c].holder>>,
                            <<"beginTransaction", "false", obs[c].holder>> >>
        /\ obs[c].sent.begin = 1
        /\ obs[c].errors = 1
        /\ cl[c].isWithinTransaction


\* C9: commitTransaction() called on a client that is not in a transaction
\* logs an error, returns false, hands nothing to the driver and leaves the
\* client's fields (isWithinTransaction, lastQuery, isQueryRunning,
\* sanityTimeout) and the timer table as they were.
C9_CommitOutsideTransactionRefused ==
    [][\A r \in Requests, c \in Clients :
          (Commit(r, c) /\ ~cl[c].isWithinTransaction)
              => /\ obs'[c].errors = obs[c].errors + 1
                 /\ obs'[c].lastError = "Tried to commit transaction outside of transaction"
                 /\ obs'[c].hist = Append(obs[c].hist, <<"commitTransaction", "false", r>>)
                 /\ obs'[c].sent = obs[c].sent
                 /\ queue' = queue
                 /\ cl' = cl
                 /\ pending' = pending
                 /\ idle' = idle
                 /\ req'[r].pc = "handler"]_vars

\* C9 witness: a commit without a begin, refused, on a checked-out client
C9_Witness ==
    \E c \in Clients :
        /\ obs[c].hist = << <<"commitTransaction", "false", obs[c].holder>> >>
        /\ obs[c].sent.commit = 0
        /\ obs[c].errors = 1
        /\ ~idle[c] /\ ~cl[c].isWithinTransaction


C11_PatchIdempotent ==
    \A c \in Clients :
        (~idle[c] /\ obs[c].holder # 0)
            => /\ cl[c].queryLayers = 1
               /\ cl[c].namedParameters
               /\ cl[c].release = "wrapped"


\* C12: no leaked connection.  Once the leak timer of a checkout has expired
\* and every statement dispatched on the connection has completed, the
\* connection is back in the pool: the forced release returns whatever the
\* holder and the request-completion cleanup did not.
C12_NoLeakedConnection ==
    \A c \in Clients :
        (obs[c].fired > 0 /\ queue[c] = <<>>) => idle[c]

\* a step in which the pool's release of the current checkout of c is invoked
NativeRelease(c) == /\ epoch'[c] = epoch[c]
                    /\ obs'[c].natives > obs[c].natives

\* C13: no orphaned transaction.  When the native release returns c to the
\* pool, the last transaction statement dispatched on c during the checkout
\* is not a BEGIN: every BEGIN has been followed by a COMMIT or a ROLLBACK.
C13_NoOrphanedTransaction ==
    [][\A c \in Clients : NativeRelease(c) => ~obs'[c].open]_vars

\* the handler's own query is the driver call at the head of c's queue
QueryAtHead(c) == /\ queue[c] # <<>>
                  /\ Head(queue[c]).k.kind = "query"

\* C14: when the driver call behind a handler's client.query() fails, the
\* wrapper logs "Database query error" once and the handler gets the error;
\* when it succeeds nothing is logged and the handler goes on.  Either way the
\* driver call is not repeated (no statement is queued in its place) and
\* isQueryRunning is false afterwards.
C14_QueryFailureLoggedAndRethrown ==
    [][\A c \in Clients, ok \in BOOLEAN :
          (QueryAtHead(c) /\ Settle(c, ok))
              => LET r == Head(queue[c]).k.r
                 IN  /\ queue'[c] = Tail(queue[c])
                     /\ ~cl'[c].isQueryRunning
                     /\ req'[r].pc = IF ok THEN "handler" ELSE "caught"
                     /\ obs'[c].errors = obs[c].errors + (IF ok THEN 0 ELSE 1)
                     /\ ~ok => obs'[c].lastError = "Database query error"
                     /\ obs'[c].sent = obs[c].sent]_vars

\* a handler's query has failed: the error is logged and the handler has it
C14_Witness ==
    \E c \in Clients :
        /\ obs[c].holder # 0 /\ req[obs[c].holder].pc = "caught"
        /\ obs[c].hist = <<>> /\ obs[c].relCalls = 0
        /\ obs[c].errors = 1 /\ obs[c].lastError = "Database query error"
        /\ queue[c] = <<>> /\ ~cl[c].isQueryRunning

\* the request property name the plugin was configured with
Configured ==
    IF options.requestDecoratorName = "" THEN "dbClient" ELSE options.requestDecoratorName

\* C15: requireDbClient() binds the client it acquired onto the request under
\* the configured name (requestDecoratorName, default "dbClient") and returns
\* that client.
C15_RequireBindsAndReturns ==
    [][\A r \in Requests, c \in Clients :
          RequireDbClient(r, c)
              => /\ req'[r].dec = c
                 /\ req'[r].decName = Configured
                 /\ req'[r].ret = c]_vars

\* a step in which request r completes with the hooks alone in charge of its
\* clients (fastify.addCleanupWork is not installed, or not looked for)
Completes(r) == /\ req[r].pc \in {"onError", "onSend"}
                /\ req'[r].pc = "done"
                /\ ~addCleanupWork \/ variant = "database.js"

\* C16: when a request completes without the cleanup collaborator, release()
\* has been called on every client it acquired and still holds, and its
\* client list is empty.
C16_HooksReleaseEveryClient ==
    [][\A r \in Requests :
          Completes(r)
              => /\ \A c \in Range(req[r].held) :
                        (epoch'[c] = epoch[c] /\ obs[c].holder = r)
                            => obs'[c].relCalls >= 1
                 /\ req'[r].dbClients = <<>>]_vars

\* C17: startup probe.  The plugin becomes ready only in a step that checks
\* one connection out and returns it to the pool; if the probe fails the
\* process exits with no hook registered and the server not decorated, and
\* nothing is touched.  Hooks and decorator exist only once the plugin is
\* ready, and no request is served before that.
C17_StartupProbe ==
    [][/\ (boot.phase = "starting" /\ boot'.phase = "ready")
            => /\ epoch'[1] = epoch[1] + 1
               /\ obs'[1].natives = obs[1].natives + 1
               /\ idle' = idle /\ pending' = pending
               /\ boot'.hooks /\ boot'.decorated
       /\ (boot.phase = "starting" /\ boot'.phase = "exited")
            => /\ ~boot'.hooks /\ ~boot'.decorated
               /\ UNCHANGED <<epoch, idle, cl, req, obs, pending, queue>>
       /\ (boot'.hooks \/ boot'.decorated) => boot'.phase = "ready"
       /\ boot.phase # "ready" => UNCHANGED req]_vars

\* the probe failed: the process is gone, nothing was exposed or served
C17_Witness ==
    /\ boot.phase = "exited" /\ ~boot.hooks /\ ~boot.decorated
    /\ \A r \in Requests : req[r].pc = "new"

\* C18: when pool.connect() rejects, the request gets the failure (it takes
\* the error path), no second checkout is attempted, no timer is armed, no
\* identity is used up and no client is bound.
C18_PoolFailurePropagates ==
    [][\A r \in Requests :
          ConnectFails(r)
              => /\ req'[r].pc = "onError"
                 /\ req'[r].held = <<>> /\ req'[r].dec = 0
                 /\ UNCHANGED <<epoch, idle, pending, clientIdCounter, cl, queue, obs>>]_vars

\* a request whose acquisition failed is on the error path, empty-handed
C18_Witness ==
    \E r \in Requests :
        /\ req[r].pc = "onError" /\ req[r].held = <<>> /\ req[r].dec = 0
        /\ \A c \in Clients : pending[c] = {} /\ cl[c].uniqueId = 0

\* the COMMIT of a handler's commitTransaction() is in flight on c
CommitInFlight(c) ==
    \E i \in DOMAIN queue[c] : queue[c][i].k.kind = "commit"

\* C19: commitTransaction() clears isWithinTransaction before it dispatches
\* COMMIT: the flag is false as soon as the COMMIT is handed to the driver,
\* and a forced release by the leak timer while the COMMIT is in flight
\* dispatches no ROLLBACK.
C19_CommitClearsFlagFirst ==
    [][\A c \in Clients :
          /\ (epoch'[c] = epoch[c] /\ obs'[c].sent.commit > obs[c].sent.commit)
                => ~cl'[c].isWithinTransaction
          /\ (Fired(c) /\ CommitInFlight(c))
                => obs'[c].sent.rollback = obs[c].sent.rollback]_vars

\* a ROLLBACK dispatched on c has not completed yet
RollbackInFlight(c) ==
    \E i \in DOMAIN queue[c] : queue[c][i].text = ROLLBACK

\* C20: rollbackTransactionIfNotCommitted / asyncTryRollback, as release()
\* calls it.  With isWithinTransaction set it dispatches one ROLLBACK and the
\* flag is false from then on; with the flag clear it dispatches nothing and
\* leaves the flag alone.  A release() that overlaps an earlier one whose
\* ROLLBACK is still in flight therefore dispatches no second ROLLBACK.
C20_RollbackClearsFlagFirst ==
    [][\A c \in Clients :
          ReleaseCalled(c)
              => /\ cl[c].isWithinTransaction
                        => /\ obs'[c].sent.rollback = obs[c].sent.rollback + 1
                           /\ ~cl'[c].isWithinTransaction
                 /\ ~cl[c].isWithinTransaction
                        => /\ obs'[c].sent = obs[c].sent
                           /\ ~cl'[c].isWithinTransaction
                 /\ (obs[c].relLast /\ RollbackInFlight(c))
                        => obs'[c].sent.rollback = obs[c].sent.rollback]_vars

\* two release() calls have overlapped on one ROLLBACK, still in flight
C20_Witness ==
    \E c \in Clients :
        /\ ~obs[c].shared /\ obs[c].relLast
        /\ obs[c].relCalls = 2 /\ obs[c].sent.rollback = 1
        /\ RollbackInFlight(c)

\* the BEGIN of the holder's beginTransaction() is the driver call at the
\* head of c's queue, on a checkout the holder has to itself
BeginAtHead(c) == /\ queue[c] # <<>>
                  /\ Head(queue[c]).k.kind = "begin"
                  /\ ~obs[c].shared

\* C21: when the BEGIN of beginTransaction() fails, isWithinTransaction is
\* false afterwards (so a later commit is refused and a later release sends
\* no ROLLBACK).
C21_FailedBeginLeavesFlagClear ==
    [][\A c \in Clients :
          (BeginAtHead(c) /\ Settle(c, FALSE)) => ~cl'[c].isWithinTransaction]_vars

\* the ROLLBACK dispatched by a release() of c has not completed yet
ReleaseRollbackInFlight(c) ==
    \E i \in DOMAIN queue[c] : queue[c][i].k.kind \in {"detached", "release"}

\* C22: release() waits for its ROLLBACK before it hands the connection to
\* the pool's native release: a connection is never in the pool while a
\* ROLLBACK dispatched by release() is still in flight on it.
C22_RollbackDoneBeforeNativeRelease ==
    \A c \in Clients : idle[c] => ~ReleaseRollbackInFlight(c)

\* C23: client identity.  The counter never decreases and moves only when a
\* connection without identity is checked out, which then gets the counter's
\* value; an identity once assigned never changes; no two connections share
\* one; a client handed out by getClientUnsafe has an identity.
C23_ClientIdentity ==
    [][/\ clientIdCounter' >= clientIdCounter
       /\ \A c \in Clients :
             /\ cl[c].uniqueId # 0 => cl'[c].uniqueId = cl[c].uniqueId
             /\ (cl[c].uniqueId = 0 /\ cl'[c].uniqueId # 0)
                   => /\ cl'[c].uniqueId = clientIdCounter
                      /\ clientIdCounter' = clientIdCounter + 1
                      /\ epoch'[c] = epoch[c] + 1
             /\ (variant # "database.js" /\ obs'[c].holder # 0) => cl'[c].uniqueId # 0
             /\ \A d \in Clients \ {c} :
                   cl'[c].uniqueId # 0 => cl'[c].uniqueId # cl'[d].uniqueId
       /\ clientIdCounter' # clientIdCounter
             => \E c \in Clients : cl[c].uniqueId = 0 /\ cl'[c].uniqueId # 0]_vars

\* two connections carry identities and one of them has been checked out,
\* released and checked out again
C23_Witness ==
    \E c \in Clients, d \in Clients :
        /\ c # d /\ cl[c].uniqueId # 0 /\ cl[d].uniqueId # 0
        /\ obs[c].holder # 0 /\ obs[c].natives = 0 /\ ~idle[c]
        /\ epoch[c] >= (IF c = 1 THEN 3 ELSE 2)

\* C24: at most one leak timer is pending per client.  An acquisition is
\* never held up and leaves exactly one timer armed, the fresh one; when it
\* finds a stale timer or the running flag on the connection it logs an
\* error, otherwise it logs none.
C24_OneTimerPerClient ==
    [][/\ \A c \in Clients : Cardinality(pending'[c]) <= 1
       /\ \A r \in Requests, c \in Clients :
             RequireDbClient(r, c)
                 => /\ pending'[c] = {epoch'[c]}
                    /\ cl'[c].sanityTimeout = epoch'[c]
                    /\ req'[r].pc = "handler"
                    /\ obs'[c].errors >= 1
                          <=> (cl[c].sanityTimeout # 0 \/ cl[c].isQueryRunning)]_vars

\* C25: isQueryRunning is true exactly while a statement dispatched through
\* client.query() has not completed.
C25_RunningIffInFlight ==
    \A c \in Clients : cl[c].isQueryRunning <=> queue[c] # <<>>

\* C26: the report written when the leak timer expires says whether a query
\* was in flight at that moment: its stillRunning is the value isQueryRunning
\* had when the timer fired, in whichever sink gets the report.
C26_ReportHasStillRunning ==
    [][\A c \in Clients :
          Fired(c) => obs'[c].report.stillRunning =
                          (IF cl[c].isQueryRunning THEN "true" ELSE "false")]_vars

\* C27: requireDbClient() registers exactly one cleanup strategy for the
\* client it acquired: the cleanup work when fastify.addCleanupWork is
\* installed (and then the client is not put on request.dbClients), the
\* list otherwise.
C27_OneCleanupStrategy ==
    [][\A r \in Requests, c \in Clients :
          RequireDbClient(r, c)
              => IF addCleanupWork
                 THEN /\ req'[r].cleanup = Append(req[r].cleanup, c)
                      /\ req'[r].dbClients = req[r].dbClients
                 ELSE /\ req'[r].dbClients = Append(req[r].dbClients, c)
                      /\ req'[r].cleanup = req[r].cleanup]_vars

\* what Database.query() must leave alone: the pool's connections, the
\* timers, the id counter and every field of every wrapped client
ClientState == <<cl, idle, epoch, pending, queue, clientIdCounter, obs, req>>

\* C28: Database.query(text, params) hands the caller's text and params to
\* the pool's query unchanged and returns the pool's result for them; from
\* call to return it checks out no client, arms no timer and changes no
\* field of any wrapped client.
C28_PoolQueryDelegates ==
    [][/\ \A params \in PoolParams :
             DatabaseQuery(SELECT, params)
                 => /\ poolQuery'.phase = "running"
                    /\ poolQuery'.text = SELECT /\ poolQuery'.params = params
                    /\ UNCHANGED ClientState
       /\ DatabaseQuerySettles(TRUE)
             => /\ poolQuery'.phase = "returned"
                /\ poolQuery'.result = PoolResult(poolQuery.text, poolQuery.params)
                /\ UNCHANGED ClientState
       /\ DatabaseQuerySettles(FALSE)
             => /\ poolQuery'.phase = "threw"
                /\ UNCHANGED ClientState]_vars

\* a pool-level query with named parameters has returned while a request
\* holds a client with a timer armed
C28_Witness ==
    /\ poolQuery.phase = "returned"
    /\ poolQuery.result = PoolResult(SELECT, "named")
    /\ \E c \in Clients : ~idle[c] /\ pending[c] # {} /\ obs[c].holder # 0

\* request r completes (a hook or its cleanup work runs) while connection c,
\* which r once held, is checked out to another request
LateCompletion(r, c) ==
    /\ OnError(r) \/ OnSend(r) \/ CleanupWork(r)
    /\ c \in Range(req[r].held)
    /\ ~idle[c] /\ obs[c].holder \notin {0, r}

\* C29: one holder at a time.  When the completion of an earlier holder runs
\* after the connection has gone to a second request, it leaves the second
\* holder's checkout alone: the timer stays armed, no ROLLBACK is dispatched
\* and the connection is not returned to the pool.
C29_LateReleaseSparesNewHolder ==
    [][\A r \in Requests, c \in Clients :
          LateCompletion(r, c)
              => /\ pending'[c] = pending[c]
                 /\ obs'[c].sent = obs[c].sent
                 /\ ~idle'[c] /\ obs'[c].natives = obs[c].natives]_vars

\* C30: when the onError hook has run for a request, the onSend hook that
\* follows finds nothing left to release: it calls release() on no client.
C30_SecondHookReleasesNothing ==
    [][\A r \in Requests :
          (OnSend(r) /\ req[r].errored)
              => \A c \in Clients : obs'[c].relCalls = obs[c].relCalls]_vars

\* the ROLLBACK dispatched by a release() of the current checkout of c is the
\* driver call at the head of c's queue
ReleaseRollbackAtHead(c) ==
    /\ queue[c] # <<>>
    /\ Head(queue[c]).k.kind \in {"detached", "release"}
    /\ Head(queue[c]).k.nep = epoch[c]

\* C31: when the ROLLBACK of a release() fails, the release has all the same
\* invoked the native release of its checkout and cancelled its leak timer:
\* the connection is not left checked out.
C31_ReleaseSurvivesFailedRollback ==
    [][\A c \in Clients :
          (ReleaseRollbackAtHead(c) /\ Settle(c, FALSE))
              => /\ obs'[c].natives >= 1
                 /\ idle'[c]
                 /\ epoch[c] \notin pending'[c]]_vars

====
